---------------------------- MODULE Spec2Model ----------------------------
(***************************************************************************)
(* A model of undgraph (src/undgraph.c): read_undgraph (header tags, the   *)
(* two-pass sample read), the start-up stages of main, the mesh builder    *)
(* and the render loop with its one-shot frame export.                     *)
(*                                                                         *)
(* Text is modelled character by character: a file is a sequence of        *)
(* one-character strings, fgets/sscanf/strtof are operators on such        *)
(* sequences.  A float is modelled as a fixed-point number with one        *)
(* decimal digit (the integer v stands for v / FloatScale); FLT_MIN is the *)
(* smallest positive value of that range, FLT_MAX its largest finite one.  *)
(* Results beyond FLT_MAX become an infinity, and 0 * infinity,            *)
(* infinity - infinity and 0 / 0 become NaN, as in IEEE arithmetic.        *)
(***************************************************************************)
EXTENDS Integers, Sequences, FiniteSets, TLC

(***************************************************************************)
(* Program constants.                                                      *)
(***************************************************************************)
WIDTH == 1152
HEIGHT == 648
LINE_SIZE == 64
TAG_WIDTH == 31
FloatScale == 10
FLT_MIN == 1
FLT_MAX == 1000000

(***************************************************************************)
(* Bounds of the model.                                                    *)
(***************************************************************************)
MaxTags == 3
MaxLines == 3
MaxFrames == 2

NL == "\n"
NULL == "NULL"
EOF == -1

(***************************************************************************)
(* Characters and C library text functions.                                *)
(***************************************************************************)
IsSpace(c) == c \in {" ", NL, "\t"}

Digits == <<"0", "1", "2", "3", "4", "5", "6", "7", "8", "9">>

IsDigit(c) == \E d \in 1..10 : Digits[d] = c

DigitVal(c) == (CHOOSE d \in 1..10 : Digits[d] = c) - 1

Min2(a, b) == IF a < b THEN a ELSE b

\* The suffix of s that starts at 0-based offset off (a C pointer s + off).
From(s, off) == SubSeq(s, off + 1, Len(s))

\* The number of leading characters of s that satisfy / do not satisfy isspace.
RECURSIVE SpaceRun(_)
SpaceRun(s) ==
    IF s # <<>> /\ IsSpace(Head(s)) THEN 1 + SpaceRun(Tail(s)) ELSE 0

RECURSIVE WordRun(_)
WordRun(s) ==
    IF s # <<>> /\ ~IsSpace(Head(s)) THEN 1 + WordRun(Tail(s)) ELSE 0

RECURSIVE DigitRun(_)
DigitRun(s) ==
    IF s # <<>> /\ IsDigit(Head(s)) THEN 1 + DigitRun(Tail(s)) ELSE 0

\* The value of a run of decimal digits.
RECURSIVE DigitsVal(_)
DigitsVal(s) ==
    IF s = <<>> THEN 0 ELSE DigitsVal(SubSeq(s, 1, Len(s) - 1)) * 10 + DigitVal(s[Len(s)])

\* fgets(line, n, fp) on a stream at 1-based position pos: at most n - 1
\* characters, stopping after a newline; NULL at end of file.
Fgets(content, pos, n) ==
    LET rest == SubSeq(content, pos, Len(content))
        cap  == SubSeq(rest, 1, Min2(n - 1, Len(rest)))
        nl   == IF \E k \in 1..Len(cap) : cap[k] = NL
                THEN CHOOSE k \in 1..Len(cap) :
                         cap[k] = NL /\ \A j \in 1..(k - 1) : cap[j] # NL
                ELSE Len(cap)
    IN  IF rest = <<>>
        THEN [ret |-> NULL, line |-> <<>>, pos |-> pos]
        ELSE [ret |-> "line", line |-> SubSeq(cap, 1, nl), pos |-> pos + nl]

\* sscanf(s, " %31s %n", tag, &nc): skip white space, store at most TAG_WIDTH
\* non-space characters, skip white space, store the number of characters
\* consumed.  At the end of the input before the token the call returns EOF
\* and writes neither tag nor nc.
ScanTag(s, tag, nc) ==
    LET lead == SpaceRun(s)
        word == Min2(WordRun(From(s, lead)), TAG_WIDTH)
        trail == SpaceRun(From(s, lead + word))
    IN  IF lead = Len(s)
        THEN [ret |-> EOF, tag |-> tag, nc |-> nc]
        ELSE [ret |-> 1, tag |-> SubSeq(s, lead + 1, lead + word),
              nc |-> lead + word + trail]

\* strstr(tag, key) == tag: key is a prefix of tag.
HasPrefix(s, key) == Len(s) >= Len(key) /\ SubSeq(s, 1, Len(key)) = key

\* An optionally signed decimal integer at the start of s, after white space
\* (the %d conversion).
ScanInt(s) ==
    LET t    == From(s, SpaceRun(s))
        sign == IF t # <<>> /\ t[1] \in {"-", "+"} THEN 1 ELSE 0
        n    == DigitRun(From(t, sign))
        v    == DigitsVal(SubSeq(t, sign + 1, sign + n))
    IN  IF n = 0 THEN [ok |-> FALSE, val |-> 0]
        ELSE [ok |-> TRUE, val |-> IF sign = 1 /\ t[1] = "-" THEN -v ELSE v]

(***************************************************************************)
(* float arithmetic.                                                       *)
(***************************************************************************)
PosInf == FLT_MAX + 1
NegInf == -PosInf
NaN == FLT_MAX + 2

Abs(a) == IF a < 0 THEN -a ELSE a

Sign(a) == IF a < 0 THEN -1 ELSE 1

IsFinite(a) == Abs(a) <= FLT_MAX

\* A finite result out of the float range becomes an infinity.
Round(v) == IF v > FLT_MAX THEN PosInf ELSE IF v < -FLT_MAX THEN NegInf ELSE v

ToFloat(n) == Round(n * FloatScale)

FNeg(a) == IF a = NaN THEN NaN ELSE -a

FAdd(a, b) ==
    IF a = NaN \/ b = NaN THEN NaN
    ELSE IF ~IsFinite(a) THEN (IF ~IsFinite(b) /\ b # a THEN NaN ELSE a)
    ELSE IF ~IsFinite(b) THEN b
    ELSE Round(a + b)

FSub(a, b) == FAdd(a, FNeg(b))

FMul(a, b) ==
    IF a = NaN \/ b = NaN THEN NaN
    ELSE IF ~IsFinite(a) \/ ~IsFinite(b)
    THEN (IF a = 0 \/ b = 0 THEN NaN ELSE Sign(a) * Sign(b) * PosInf)
    ELSE IF b # 0 /\ Abs(a) > (PosInf * FloatScale) \div Abs(b)
    THEN Sign(a) * Sign(b) * PosInf
    ELSE Round(Sign(a) * Sign(b) * ((Abs(a) * Abs(b)) \div FloatScale))

FDiv(a, b) ==
    IF a = NaN \/ b = NaN THEN NaN
    ELSE IF ~IsFinite(a) THEN (IF ~IsFinite(b) THEN NaN ELSE Sign(a) * Sign(b) * PosInf)
    ELSE IF ~IsFinite(b) THEN 0
    ELSE IF b = 0 THEN (IF a = 0 THEN NaN ELSE Sign(a) * PosInf)
    ELSE Round(Sign(a) * Sign(b) * ((Abs(a) * FloatScale) \div Abs(b)))

FAbs(a) == IF a = NaN THEN NaN ELSE Abs(a)

\* The comparisons are false when an operand is NaN.
FLt(a, b) == a # NaN /\ b # NaN /\ a < b

FGt(a, b) == FLt(b, a)

FLe(a, b) == a # NaN /\ b # NaN /\ a <= b

\* An optionally signed decimal number with an optional fraction at the start
\* of s, after white space, rounded to the fixed-point float of the model.
ScanNumber(s) ==
    LET t    == From(s, SpaceRun(s))
        sign == IF t # <<>> /\ t[1] \in {"-", "+"} THEN 1 ELSE 0
        ni   == DigitRun(From(t, sign))
        dot  == IF Len(t) > sign + ni /\ t[sign + ni + 1] = "." THEN 1 ELSE 0
        nf   == IF dot = 1 THEN DigitRun(From(t, sign + ni + 1)) ELSE 0
        ip   == DigitsVal(SubSeq(t, sign + 1, sign + ni))
        fp   == IF nf > 0 THEN DigitVal(t[sign + ni + 2]) ELSE 0
        v    == Round(ip * FloatScale + fp)
    IN  IF ni + nf = 0 THEN [ok |-> FALSE, val |-> 0]
        ELSE [ok |-> TRUE, val |-> IF sign = 1 /\ t[1] = "-" THEN -v ELSE v]

\* sscanf(s, "%f", &f) returns 1 and stores the number, or fails and leaves f.
ScanFloat(s) == ScanNumber(s)

\* strtof(s, NULL): the number at the start of s, 0 when there is none.
Strtof(s) == ScanNumber(s).val


(***************************************************************************)
(* Text constants of the program and of the inputs.                        *)
(***************************************************************************)
Undgraph == <<"u", "n", "d", "g", "r", "a", "p", "h">>
KeyMsaa == <<"m", "s", "a", "a">>
KeySave == <<"s", "a", "v", "e">>
KeyLw == <<"l", "w">>
KeyFramePx == <<"f", "r", "a", "m", "e", "_", "p", "x">>
Colon == <<":">>

RECURSIVE Rep(_, _)
Rep(c, n) == IF n = 0 THEN <<>> ELSE <<c>> \o Rep(c, n - 1)

(***************************************************************************)
(* The program state.                                                      *)
(***************************************************************************)
VARIABLES
    argv,       \* the arguments after the program name
    disk,       \* the file the run names: whether it opens, and its contents
    pc,         \* the position of the program
    status,     \* "running", "exit0", "exit1", "SIGABRT" or "SIGSEGV"
    filename,   \* main's filename
    fpos,       \* the read position of fp (1-based)
    graphdata,  \* struct graphdata_s, without the sample buffer
    data,       \* graphdata.data: the pointer and the cells it points to
    i,          \* the loop index of read_undgraph and of the mesh loop
    mesh,       \* mesh: the pointer and the vertices it points to
    allocs,     \* per buffer, the number of successful malloc calls
    frees,      \* per buffer, the number of free calls
    writes,     \* the indices the fill pass stored to, in order
    ubRead,     \* the undefined reads performed so far
    passStart,  \* the read position at which each pass took its first line
    ran,        \* the start-up stages executed so far
    failed,     \* the stage that failed, or "none"
    shouldClose,\* glfwWindowShouldClose(window)
    iter,       \* iterations of the render loop entered
    frames,     \* frames drawn and presented
    saveAtLoop, \* <<graphdata.save>> as the render loop started, <<>> before
    exports     \* per export, the iteration it ran in and the frames presented

vars == <<argv, disk, pc, status, filename, fpos, graphdata, data, i, mesh,
          allocs, frees, writes, ubRead, passStart, ran, failed, shouldClose,
          iter, frames, saveAtLoop, exports>>

Junk == "junk"

\* A buffer returned by malloc holds n cells nothing was stored to yet.
Fresh(n) == [k \in 1..n |-> [stored |-> FALSE, val |-> 0]]

\* malloc(n): a request of zero bytes returns a null pointer or a unique
\* pointer, as the allocator chooses; a request of n > 0 bytes is served.
MallocResults(n) == IF n = 0 THEN {NULL, "heap"} ELSE {"heap"}

\* char tag[32] is not initialized: its contents before the first scan are
\* indeterminate, and may or may not spell the magic.
IndeterminateTags == {Undgraph, <<Junk>>}

\* strlen(lp) with lp == NULL (fgets at end of file) is undefined: the read
\* of address 0 traps, or the run goes on with a line that is not the magic.
NullLineOutcomes == {"SIGSEGV", "mismatch"}

(***************************************************************************)
(* read_undgraph: the header.                                              *)
(***************************************************************************)
\* sscanf(tag, "<key>:%d", &field): the literal must match, then an integer.
TagInt(tag, key, old) ==
    LET lit == key \o Colon
        r   == ScanInt(From(tag, Len(lit)))
    IN  IF HasPrefix(tag, lit) /\ r.ok THEN r.val ELSE old

\* sscanf(tag, "<key>:%f", &field).
TagFloat(tag, key, old) ==
    LET lit == key \o Colon
        r   == ScanFloat(From(tag, Len(lit)))
    IN  IF HasPrefix(tag, lit) /\ r.ok THEN r.val ELSE old

\* The body of the tag loop for one token.
ApplyTag(g, tag) ==
    IF HasPrefix(tag, KeyMsaa)
    THEN [g EXCEPT !.msaa = TagInt(tag, KeyMsaa, g.msaa)]
    ELSE IF HasPrefix(tag, KeySave)
    THEN [g EXCEPT !.save = TagInt(tag, KeySave, g.save)]
    ELSE IF HasPrefix(tag, KeyLw)
    THEN [g EXCEPT !.line_width = TagFloat(tag, KeyLw, g.line_width)]
    ELSE IF HasPrefix(tag, KeyFramePx)
    THEN [g EXCEPT !.frame_px = TagFloat(tag, KeyFramePx, g.frame_px)]
    ELSE g   \* warning: unknown tag

\* while((size_t)(lp - line) < i && sscanf(lp += nc, " %31s %n", tag, &nc) > 0)
RECURSIVE TagLoop(_, _, _, _)
TagLoop(line, lp, nc, g) ==
    IF lp < Len(line)
    THEN LET r == ScanTag(From(line, lp + nc), <<>>, nc)
         IN  IF r.ret > 0 THEN TagLoop(line, lp + nc, r.nc, ApplyTag(g, r.tag))
             ELSE g
    ELSE g

\* The default tag values.
Defaults(g) ==
    [g EXCEPT !.msaa = 0, !.save = 0, !.line_width = ToFloat(1), !.frame_px = 0]


(***************************************************************************)
(* read_undgraph, called from main.  A return of 0 makes main return 1.    *)
(***************************************************************************)
\* main: the file name is argv[1], or the default.
MainStart ==
    /\ pc = "main"
    /\ filename' = IF Len(argv) >= 1 THEN argv[1] ELSE "undgraph.txt"
    /\ pc' = "fopen"
    /\ UNCHANGED <<argv, disk, status, fpos, graphdata, data, i, mesh, allocs,
                   frees, writes, ubRead, passStart, ran, failed, shouldClose,
                   frames, saveAtLoop, exports, iter>>

\* fopen, and the default tag values.
ReadOpen ==
    /\ pc = "fopen"
    /\ ran' = ran \cup {"open"}
    /\ IF ~disk.exists
       THEN /\ status' = "exit1"
            /\ failed' = "open"
            /\ pc' = "exit"
            /\ UNCHANGED <<graphdata, fpos>>
       ELSE /\ graphdata' = Defaults(graphdata)
            /\ fpos' = 1
            /\ pc' = "header"
            /\ UNCHANGED <<status, failed>>
    /\ UNCHANGED <<argv, disk, filename, data, i, mesh, allocs, frees, writes,
                   ubRead, passStart, shouldClose, frames, saveAtLoop, exports, iter>>

\* The header line: fgets, strlen, the magic and the tag loop.
ReadHeader ==
    /\ pc = "header"
    /\ ran' = ran \cup {"magic"}
    /\ LET got == Fgets(disk.content, fpos, LINE_SIZE)
       IN  IF got.ret = NULL
           THEN \E o \in NullLineOutcomes :
                  /\ ubRead' = ubRead \cup {"null line"}
                  /\ status' = IF o = "SIGSEGV" THEN "SIGSEGV" ELSE "exit1"
                  /\ failed' = IF o = "SIGSEGV" THEN failed ELSE "magic"
                  /\ pc' = "exit"
                  /\ UNCHANGED <<fpos, graphdata, i>>
           ELSE \E before \in IndeterminateTags :
                  LET magic == ScanTag(got.line, before, 0)
                  IN  /\ ubRead' = IF magic.ret = EOF
                                   THEN ubRead \cup {"unwritten tag"}
                                   ELSE ubRead
                      /\ fpos' = got.pos
                      /\ i' = Len(got.line)
                      /\ IF magic.tag # Undgraph
                         THEN /\ status' = "exit1"
                              /\ failed' = "magic"
                              /\ pc' = "exit"
                              /\ UNCHANGED graphdata
                         ELSE /\ graphdata' =
                                   [TagLoop(got.line, 0, magic.nc, graphdata)
                                       EXCEPT !.size = 0]
                              /\ pc' = "count"
                              /\ UNCHANGED <<status, failed>>
    /\ UNCHANGED <<argv, disk, filename, data, mesh, allocs, frees, writes,
                   passStart, shouldClose, frames, saveAtLoop, exports, iter>>

\* The counting pass stops at a line sscanf does not read a float from.
CountStops(line) == ~ScanFloat(line).ok

\* One iteration of the counting pass; at its end, fseek to the start.
CountLine ==
    /\ pc = "count"
    /\ LET got == Fgets(disk.content, fpos, LINE_SIZE)
       IN  /\ passStart' = IF passStart.count = 0
                           THEN [passStart EXCEPT !.count = fpos]
                           ELSE passStart
           /\ IF got.ret # NULL /\ ~CountStops(got.line)
              THEN /\ graphdata' = [graphdata EXCEPT !.size = @ + 1]
                   /\ fpos' = got.pos
                   /\ pc' = "count"
              ELSE /\ fpos' = 1
                   /\ pc' = "alloc"
                   /\ UNCHANGED graphdata
    /\ UNCHANGED <<argv, disk, status, filename, data, i, mesh, allocs, frees,
                   writes, ubRead, ran, failed, shouldClose, frames, saveAtLoop,
                   exports, iter>>

\* malloc(sizeof(float) * size) and the assertion on its result.
ReadAllocate ==
    /\ pc = "alloc"
    /\ \E p \in MallocResults(graphdata.size) :
         IF p = NULL
         THEN /\ data' = [ptr |-> NULL, cells |-> <<>>]
              /\ status' = "SIGABRT"
              /\ pc' = "exit"
              /\ UNCHANGED allocs
         ELSE /\ data' = [ptr |-> p, cells |-> Fresh(graphdata.size)]
              /\ allocs' = [allocs EXCEPT !.data = @ + 1]
              /\ pc' = "skip"
              /\ UNCHANGED status
    /\ UNCHANGED <<argv, disk, filename, fpos, graphdata, i, mesh, frees, writes,
                   ubRead, passStart, ran, failed, shouldClose, frames,
                   saveAtLoop, exports, iter>>

\* "skip the header": one fgets, then the initial values of the fill pass.
ReadSkipHeader ==
    /\ pc = "skip"
    /\ fpos' = Fgets(disk.content, fpos, LINE_SIZE).pos
    /\ i' = 0
    /\ graphdata' = [graphdata EXCEPT !.max_value = FLT_MIN, !.min_value = FLT_MAX]
    /\ pc' = "fill"
    /\ UNCHANGED <<argv, disk, status, filename, data, mesh, allocs, frees,
                   writes, ubRead, passStart, ran, failed, shouldClose, frames,
                   saveAtLoop, exports, iter>>

\* A fill pass that also takes the line after the last counted one.
FillGuardInclusive(idx, size) == idx <= size

\* The fill pass stores a line while i < data->size.
FillGuard(idx, size) == idx < size

\* data->data[idx] = f; a store past the buffer is recorded, not performed.
Store(cells, idx, f) ==
    IF idx < Len(cells)
    THEN [cells EXCEPT ![idx + 1] = [stored |-> TRUE, val |-> f]]
    ELSE cells

\* One iteration of the fill pass; at its end, tick_size, fclose, return 1.
FillLine ==
    /\ pc = "fill"
    /\ LET got == Fgets(disk.content, fpos, LINE_SIZE)
           f   == Strtof(got.line)
       IN  /\ passStart' = IF passStart.fill = 0
                           THEN [passStart EXCEPT !.fill = fpos]
                           ELSE passStart
           /\ fpos' = got.pos
           /\ IF got.ret # NULL /\ FillGuard(i, graphdata.size)
              THEN /\ graphdata' =
                        [graphdata EXCEPT
                           !.max_value = IF FGt(f, @) THEN f ELSE @,
                           !.min_value = IF FLt(f, @) THEN f ELSE @]
                   /\ data' = [data EXCEPT !.cells = Store(@, i, f)]
                   /\ writes' = Append(writes, i)
                   /\ i' = i + 1
                   /\ pc' = "fill"
              ELSE /\ graphdata' =
                        [graphdata EXCEPT !.tick_size =
                           FDiv(FAbs(FSub(graphdata.max_value, graphdata.min_value)),
                                ToFloat(graphdata.size))]
                   /\ pc' = "args"
                   /\ UNCHANGED <<data, writes, i>>
    /\ UNCHANGED <<argv, disk, status, filename, mesh, allocs, frees, ubRead,
                   ran, failed, shouldClose, frames, saveAtLoop, exports, iter>>


(***************************************************************************)
(* main after read_undgraph: the arguments and the start-up stages.        *)
(***************************************************************************)
\* for(i = 2; i < argc; i++): forcemsaa and forcesave at any later position.
ParseArgs ==
    /\ pc = "args"
    /\ graphdata' =
         [graphdata EXCEPT
            !.msaa = IF \E k \in 2..Len(argv) : argv[k] = "forcemsaa" THEN 1 ELSE @,
            !.save = IF \E k \in 2..Len(argv) : argv[k] = "forcesave" THEN 1 ELSE @]
    /\ pc' = "glfwInit"
    /\ UNCHANGED <<argv, disk, status, filename, fpos, data, i, mesh, allocs,
                   frees, writes, ubRead, passStart, ran, failed, shouldClose,
                   iter, frames, saveAtLoop, exports>>

\* A start-up stage of main that either succeeds and goes on to the next
\* position, or fails and returns 1 (directly or through the error label).
Stage(at, name, next) ==
    /\ pc = at
    /\ ran' = ran \cup {name}
    /\ \E ok \in BOOLEAN :
         IF ok
         THEN /\ pc' = next
              /\ UNCHANGED <<status, failed>>
         ELSE /\ status' = "exit1"
              /\ failed' = name
              /\ pc' = "exit"
    /\ UNCHANGED <<argv, disk, filename, fpos, graphdata, data, i, mesh, allocs,
                   frees, writes, ubRead, passStart, shouldClose, iter, frames,
                   saveAtLoop, exports>>

GlfwInit == Stage("glfwInit", "glfwInit", "window")

CreateWindow == Stage("window", "window", "gl")

LoadGL == Stage("gl", "gl", "shaders")

\* Both shaders are compiled before either result is looked at.
CompileShaders ==
    /\ pc = "shaders"
    /\ ran' = ran \cup {"shaders"}
    /\ \E vs \in BOOLEAN, fs \in BOOLEAN :
         IF vs /\ fs
         THEN /\ pc' = "link"
              /\ UNCHANGED <<status, failed>>
         ELSE /\ status' = "exit1"
              /\ failed' = "shaders"
              /\ pc' = "exit"
    /\ UNCHANGED <<argv, disk, filename, fpos, graphdata, data, i, mesh, allocs,
                   frees, writes, ubRead, passStart, shouldClose, iter, frames,
                   saveAtLoop, exports>>

LinkProgram == Stage("link", "link", "mesh")

(***************************************************************************)
(* The mesh.                                                               *)
(***************************************************************************)
\* An x that runs from the frame to the left.
VertexXMirrored(idx, g) ==
    FSub(g.frame_px,
         FDiv(FMul(ToFloat(idx),
                   FSub(ToFloat(WIDTH), FMul(g.frame_px, ToFloat(2)))),
              ToFloat(g.size)))

\* mesh[i][0]
VertexX(idx, g) ==
    FAdd(g.frame_px,
         FDiv(FMul(ToFloat(idx),
                   FSub(ToFloat(WIDTH), FMul(g.frame_px, ToFloat(2)))),
              ToFloat(g.size)))

\* mesh[i][1]
VertexY(idx, g, cells) ==
    FAdd(g.frame_px,
         FMul(FDiv(cells[idx + 1].val, g.max_value),
              FSub(ToFloat(HEIGHT), FMul(g.frame_px, ToFloat(2)))))

\* malloc(sizeof(vec2_t) * size) and the assertion on its result.
MeshAllocate ==
    /\ pc = "mesh"
    /\ \E p \in MallocResults(graphdata.size) :
         IF p = NULL
         THEN /\ mesh' = [ptr |-> NULL, cells |-> <<>>]
              /\ status' = "SIGABRT"
              /\ pc' = "exit"
              /\ UNCHANGED allocs
         ELSE /\ mesh' = [ptr |-> p, cells |-> <<>>]
              /\ allocs' = [allocs EXCEPT !.mesh = @ + 1]
              /\ pc' = "vertex"
              /\ UNCHANGED status
    /\ i' = 0
    /\ UNCHANGED <<argv, disk, filename, fpos, graphdata, data, frees, writes,
                   ubRead, passStart, ran, failed, shouldClose, iter, frames,
                   saveAtLoop, exports>>

\* One iteration of the mesh loop; at its end the mesh is uploaded and the
\* render loop starts.
MeshVertex ==
    /\ pc = "vertex"
    /\ IF i < graphdata.size
       THEN /\ mesh' = [mesh EXCEPT !.cells =
                          Append(@, <<VertexX(i, graphdata),
                                      VertexY(i, graphdata, data.cells)>>)]
            /\ i' = i + 1
            /\ pc' = "vertex"
            /\ UNCHANGED saveAtLoop
       ELSE /\ saveAtLoop' = <<graphdata.save>>
            /\ pc' = "loop"
            /\ UNCHANGED <<mesh, i>>
    /\ UNCHANGED <<argv, disk, status, filename, fpos, graphdata, data, allocs,
                   frees, writes, ubRead, passStart, ran, failed, shouldClose,
                   iter, frames, exports>>

(***************************************************************************)
(* The render loop and the cleanup.                                        *)
(***************************************************************************)
\* while(!glfwWindowShouldClose(window))
LoopTest ==
    /\ pc = "loop"
    /\ IF shouldClose
       THEN pc' = "cleanup" /\ UNCHANGED iter
       ELSE pc' = "frame" /\ iter' = iter + 1
    /\ UNCHANGED <<argv, disk, status, filename, fpos, graphdata, data, i, mesh,
                   allocs, frees, writes, ubRead, passStart, ran, failed,
                   shouldClose, frames, saveAtLoop, exports>>

\* glfwPollEvents (the window may be asked to close), clear, draw, present.
RenderFrame ==
    /\ pc = "frame"
    /\ \E close \in (IF iter >= MaxFrames THEN {TRUE} ELSE BOOLEAN) :
         shouldClose' = close
    /\ frames' = frames + 1
    /\ pc' = "save"
    /\ UNCHANGED <<argv, disk, status, filename, fpos, graphdata, data, i, mesh,
                   allocs, frees, writes, ubRead, passStart, ran, failed, iter,
                   saveAtLoop, exports>>

\* An export that leaves the flag as it was.
SaveFlagKept(save) == save

\* graphdata.save once the frame is being exported.
SaveAfterExport(save) == 0

\* if(graphdata.save): read the pixels back and write <filename>.png once.
SaveFrame ==
    /\ pc = "save"
    /\ IF graphdata.save # 0
       THEN /\ graphdata' = [graphdata EXCEPT !.save = SaveAfterExport(@)]
            /\ \E p \in MallocResults(3 * WIDTH * HEIGHT) :
                 /\ p # NULL
                 /\ allocs' = [allocs EXCEPT !.pixels = @ + 1]
                 /\ frees' = [frees EXCEPT !.pixels = @ + 1]
            /\ exports' = Append(exports, [iter |-> iter, presented |-> frames])
       ELSE UNCHANGED <<graphdata, allocs, frees, exports>>
    /\ pc' = "loop"
    /\ UNCHANGED <<argv, disk, status, filename, fpos, data, i, mesh, writes,
                   ubRead, passStart, ran, failed, shouldClose, iter, frames,
                   saveAtLoop>>

\* The cleanup after the loop: free(graphdata.data), return 0.
Cleanup ==
    /\ pc = "cleanup"
    /\ frees' = [frees EXCEPT !.data = @ + 1]
    /\ data' = [data EXCEPT !.ptr = "freed"]
    /\ status' = "exit0"
    /\ pc' = "exit"
    /\ UNCHANGED <<argv, disk, filename, fpos, graphdata, i, mesh, allocs,
                   writes, ubRead, passStart, ran, failed, shouldClose, iter,
                   frames, saveAtLoop, exports>>

(***************************************************************************)
(* The inputs: files and arguments.                                        *)
(***************************************************************************)
TokMsaa == KeyMsaa \o <<":", "1">>
TokSave == KeySave \o <<":", "2">>
TokLw == KeyLw \o <<":", "2", ".", "5">>
TokFramePx == KeyFramePx \o <<":", "3">>
TokUnknown == <<"f", "o", "o">>
\* An unrecognized token longer than the tag buffer.
TokLong == Rep("x", TAG_WIDTH) \o TokMsaa

Tokens == {TokMsaa, TokSave, TokLw, TokFramePx, TokUnknown, TokLong}

\* The sequences of at most n distinct elements of S.
RECURSIVE Arrangements(_, _)
Arrangements(S, n) ==
    IF n = 0 THEN {<<>>}
    ELSE LET shorter == Arrangements(S, n - 1)
         IN  shorter \cup
             {r \in {Append(q, t) : q \in {r \in shorter : Len(r) = n - 1},
                                    t \in S} :
                \A j \in 1..(Len(r) - 1) : r[j] # r[Len(r)]}

RECURSIVE Concat(_)
Concat(ss) == IF ss = <<>> THEN <<>> ELSE Head(ss) \o Concat(Tail(ss))

HeaderLine(toks) ==
    Undgraph \o Concat([k \in 1..Len(toks) |-> <<" ">> \o toks[k]]) \o <<NL>>

LineTexts == {<<"2">>, <<"-", "1">>, <<"0">>, <<"x">>, <<"1", ".", "5">>, <<>>}

RECURSIVE Tuples(_, _)
Tuples(S, n) ==
    IF n = 0 THEN {<<>>}
    ELSE LET shorter == Tuples(S, n - 1)
         IN  shorter \cup
             {Append(q, t) : q \in {r \in shorter : Len(r) = n - 1}, t \in S}

DataText(lines) == Concat([k \in 1..Len(lines) |-> lines[k] \o <<NL>>])


\* The data section the header inputs are followed by.
SomeData == DataText(<<<<"2">>, <<"-", "1">>, <<"1", ".", "5">>>>)

\* A header line longer than one line read holds, ending in a number.
LongHeader ==
    Undgraph \o <<" ">> \o Rep("x", LINE_SIZE - Len(Undgraph) - 2) \o <<"7", NL>>

SpecialFiles ==
    { <<>>,                                          \* a zero-byte file
      <<NL>> \o SomeData,                            \* a blank first line
      <<" ", " ", NL>>,
      <<"n", "o", "t">> \o Undgraph \o <<NL>> \o SomeData,
      LongHeader \o SomeData,
      Undgraph,                                      \* no newline, no data
      Undgraph \o <<NL, "2", NL, "-", "1">>,         \* no final newline
      <<" ">> \o Undgraph \o <<" ", " ">> \o TokMsaa \o <<" ", NL>> \o SomeData,
      HeaderLine(<<KeyFramePx \o <<":", "6", "0", "0">>>>) \o SomeData,
      HeaderLine(<<KeyFramePx \o <<":", "-", "2">>>>) \o SomeData,
      HeaderLine(<<KeyFramePx \o <<":", "-">> \o Rep("9", 5)>>) \o SomeData,
      HeaderLine(<<KeySave \o <<":", "0">>>>) \o SomeData,
      Undgraph \o <<NL, "-", "1", NL, "-", "2", ".", "5", NL>>,
      Undgraph \o <<NL, " ", "2", "x", NL, "1", NL>> }

Contents ==
    {HeaderLine(toks) \o SomeData : toks \in Arrangements(Tokens, MaxTags)}
      \cup {HeaderLine(<<>>) \o DataText(ls) : ls \in Tuples(LineTexts, MaxLines)}
      \cup SpecialFiles

\* The files the argument lists are varied on.
ArgContents ==
    { HeaderLine(<<>>) \o SomeData,
      HeaderLine(<<TokSave>>) \o SomeData,
      HeaderLine(<<KeySave \o <<":", "0">>>>) \o SomeData }

ArgLists ==
    { <<>>,
      <<"in.txt", "forcesave">>,
      <<"in.txt", "forcemsaa">>,
      <<"in.txt", "verbose", "forcesave">>,
      <<"forcesave">> }

Inputs ==
    {[argv |-> <<"in.txt">>, disk |-> [exists |-> TRUE, content |-> c]] :
        c \in Contents}
      \cup {[argv |-> a, disk |-> [exists |-> TRUE, content |-> c]] :
              a \in ArgLists, c \in ArgContents}
      \cup {[argv |-> <<"in.txt">>, disk |-> [exists |-> FALSE, content |-> <<>>]]}

(***************************************************************************)
(* The specification.                                                      *)
(***************************************************************************)
Init ==
    /\ \E in \in Inputs : argv = in.argv /\ disk = in.disk
    /\ pc = "main"
    /\ status = "running"
    /\ filename = ""
    /\ fpos = 0
    /\ graphdata = [msaa |-> 0, save |-> 0, line_width |-> 0, frame_px |-> 0,
                    max_value |-> 0, min_value |-> 0, tick_size |-> 0,
                    size |-> 0]
    /\ data = [ptr |-> NULL, cells |-> <<>>]
    /\ i = 0
    /\ mesh = [ptr |-> NULL, cells |-> <<>>]
    /\ allocs = [data |-> 0, mesh |-> 0, pixels |-> 0]
    /\ frees = [data |-> 0, mesh |-> 0, pixels |-> 0]
    /\ writes = <<>>
    /\ ubRead = {}
    /\ passStart = [count |-> 0, fill |-> 0]
    /\ ran = {}
    /\ failed = "none"
    /\ shouldClose = FALSE
    /\ iter = 0
    /\ frames = 0
    /\ saveAtLoop = <<>>
    /\ exports = <<>>

Next ==
    \/ MainStart
    \/ ReadOpen
    \/ ReadHeader
    \/ CountLine
    \/ ReadAllocate
    \/ ReadSkipHeader
    \/ FillLine
    \/ ParseArgs
    \/ GlfwInit
    \/ CreateWindow
    \/ LoadGL
    \/ CompileShaders
    \/ LinkProgram
    \/ MeshAllocate
    \/ MeshVertex
    \/ LoopTest
    \/ RenderFrame
    \/ SaveFrame
    \/ Cleanup

Spec == Init /\ [][Next]_vars


(***************************************************************************)
(* What the claims speak of, read off the input text itself.               *)
(***************************************************************************)
\* The lines of a text, each with its newline (the last may have none).
RECURSIVE LinesOf(_)
LinesOf(s) ==
    IF s = <<>> THEN <<>>
    ELSE LET n == IF \E k \in 1..Len(s) : s[k] = NL
                  THEN CHOOSE k \in 1..Len(s) :
                           s[k] = NL /\ \A j \in 1..(k - 1) : s[j] # NL
                  ELSE Len(s)
         IN  <<SubSeq(s, 1, n)>> \o LinesOf(SubSeq(s, n + 1, Len(s)))

HeaderOf(content) == IF content = <<>> THEN <<>> ELSE Head(LinesOf(content))

DataLinesOf(content) == IF content = <<>> THEN <<>> ELSE Tail(LinesOf(content))

\* The position of the first character after the header line's newline.
DataStart(content) == Len(HeaderOf(content)) + 1

\* The white-space separated tokens of a line, whatever their length.
RECURSIVE TokensOf(_)
TokensOf(s) ==
    LET t == From(s, SpaceRun(s))
    IN  IF t = <<>> THEN <<>>
        ELSE <<SubSeq(t, 1, WordRun(t))>> \o TokensOf(From(t, WordRun(t)))

HasMagic(content) ==
    LET toks == TokensOf(HeaderOf(content))
    IN  toks # <<>> /\ toks[1] = Undgraph

\* Every line of the file fits the line buffer with its terminator.
ShortLines(content) ==
    \A k \in 1..Len(LinesOf(content)) : Len(LinesOf(content)[k]) < LINE_SIZE

\* The number of leading lines that parse as a float.
RECURSIVE ParsableRun(_)
ParsableRun(lines) ==
    IF lines # <<>> /\ ScanNumber(Head(lines)).ok
    THEN 1 + ParsableRun(Tail(lines))
    ELSE 0

\* read_undgraph has returned 1.
ReadReturned == pc = "args"

Exited == status # "running"

StoredValues == [k \in 1..Len(data.cells) |-> data.cells[k].val]

\* C1: with every line shorter than the line buffer, a successful read leaves
\* size equal to the number of leading data lines that parse as a float, and
\* the fill pass stores exactly size values, to the slots 0 .. size-1 in
\* order, slot k holding the value of the k-th data line; no store is made at
\* an index >= size and no slot stays unwritten.
C1_CountAndFill ==
    ShortLines(disk.content) =>
        /\ \A k \in 1..Len(writes) :
              writes[k] = k - 1 /\ writes[k] < graphdata.size
        /\ ReadReturned =>
              /\ graphdata.size = ParsableRun(DataLinesOf(disk.content))
              /\ Len(writes) = graphdata.size
              /\ Len(data.cells) = graphdata.size
              /\ \A k \in 1..graphdata.size :
                    /\ data.cells[k].stored
                    /\ data.cells[k].val =
                          ScanNumber(DataLinesOf(disk.content)[k]).val

\* A read of at least two samples that stopped counting at an unparsable line.
C1_Witness ==
    /\ ReadReturned
    /\ ShortLines(disk.content)
    /\ graphdata.size >= 2
    /\ Len(DataLinesOf(disk.content)) > graphdata.size
    /\ Len(writes) = graphdata.size

RECURSIVE MaxOf(_)
MaxOf(s) ==
    IF Len(s) = 1 THEN s[1]
    ELSE IF s[1] >= MaxOf(Tail(s)) THEN s[1] ELSE MaxOf(Tail(s))

RECURSIVE MinOf(_)
MinOf(s) ==
    IF Len(s) = 1 THEN s[1]
    ELSE IF s[1] <= MinOf(Tail(s)) THEN s[1] ELSE MinOf(Tail(s))

\* C2: after a successful read of at least one sample, max_value is the
\* greatest stored sample and min_value the least, whatever the signs.
C2_TrueMinMax ==
    (ReadReturned /\ graphdata.size >= 1) =>
        /\ graphdata.max_value = MaxOf(StoredValues)
        /\ graphdata.min_value = MinOf(StoredValues)

Stages == <<"open", "magic", "glfwInit", "window", "gl", "shaders", "link">>

StageIndex(name) == CHOOSE k \in 1..Len(Stages) : Stages[k] = name

\* C3: the exit status is 1 whenever a start-up stage fails (the file does not
\* open, the first token of the first line is not the magic, GLFW, the
\* window, GL, the shaders or the link fail), no stage after the failing one
\* runs, and the status is 0 only when every stage succeeded and the loop
\* ended because the window was closed.
C3_ExitStatus ==
    Exited =>
        /\ (~disk.exists \/ ~HasMagic(disk.content) \/ failed # "none") =>
              /\ status = "exit1"
              /\ failed # "none"
              /\ \A st \in ran : StageIndex(st) <= StageIndex(failed)
        /\ status = "exit0" =>
              /\ failed = "none"
              /\ ran = {Stages[k] : k \in 1..Len(Stages)}
              /\ shouldClose

\* The value of the tag key:value among the tokens, or the default.
TagValue(toks, key, integer, default) ==
    LET lit     == key \o Colon
        scan(t) == IF integer THEN ScanInt(t) ELSE ScanNumber(t)
        hits    == {k \in 2..Len(toks) :
                       HasPrefix(toks[k], lit) /\ scan(From(toks[k], Len(lit))).ok}
    IN  IF hits = {} THEN default
        ELSE scan(From(toks[CHOOSE k \in hits : TRUE], Len(lit))).val

\* Each tag occurs at most once among the tokens.
TagsOnce(toks) ==
    \A key \in {KeyMsaa, KeySave, KeyLw, KeyFramePx} :
        Cardinality({k \in 2..Len(toks) : HasPrefix(toks[k], key \o Colon)}) <= 1

\* C4: for a header line shorter than the line buffer, with the magic and any
\* subset of the four tags in any order among unrecognized tokens, each field
\* is the value of its tag where the tag is present and its default where it
\* is not; unrecognized tokens change no field.
C4_HeaderConfig ==
    LET hdr  == HeaderOf(disk.content)
        toks == TokensOf(hdr)
    IN  (pc = "count" /\ Len(hdr) < LINE_SIZE /\ HasMagic(disk.content)
           /\ TagsOnce(toks)) =>
            /\ graphdata.msaa = TagValue(toks, KeyMsaa, TRUE, 0)
            /\ graphdata.save = TagValue(toks, KeySave, TRUE, 0)
            /\ graphdata.line_width = TagValue(toks, KeyLw, FALSE, ToFloat(1))
            /\ graphdata.frame_px = TagValue(toks, KeyFramePx, FALSE, 0)

LoopStarted == saveAtLoop # <<>>

\* The first iteration of the render loop has run to its end.
FirstIterationDone == iter >= 2 \/ (iter = 1 /\ pc \in {"loop", "cleanup", "exit"})

\* C5: when the save flag is set as the render loop starts (by a nonzero save
\* tag or by forcesave at any position after the file name), the frame is
\* exported exactly once: in the first iteration, after that frame was drawn
\* and presented, and in no later iteration; when the flag is not set, no
\* export ever happens.
C5_ExportOnce ==
    /\ Len(exports) <= 1
    /\ \A k \in 1..Len(exports) : exports[k].iter = 1 /\ exports[k].presented = 1
    /\ ~LoopStarted => exports = <<>>
    /\ LoopStarted =>
          /\ saveAtLoop[1] = 0 => exports = <<>>
          /\ (saveAtLoop[1] # 0 /\ FirstIterationDone) => Len(exports) = 1
          /\ (\E k \in 2..Len(argv) : argv[k] = "forcesave") => saveAtLoop[1] # 0

\* A run with the flag set whose second iteration has passed the save step.
C5_Witness ==
    /\ LoopStarted
    /\ saveAtLoop[1] # 0
    /\ iter = 2
    /\ pc = "loop"
    /\ Len(exports) = 1

\* C6: the sample buffer and the mesh buffer are each allocated at most once
\* and, once allocated, released exactly once before the process exits, on
\* the window-close path and on every failure path after the allocation.
C6_ReleasedOnce ==
    /\ allocs.data <= 1
    /\ allocs.mesh <= 1
    /\ Exited => (frees.data = allocs.data /\ frees.mesh = allocs.mesh)

\* The file is a header line with the magic and nothing after it.
HeaderOnly(content) == HasMagic(content) /\ DataLinesOf(content) = <<>>

\* C7: for a valid header and no data lines the parser yields a count of 0
\* and the program fails or renders an empty mesh; no assertion fails,
\* whatever malloc returns for the zero-byte requests.
C7_EmptyDataNoAbort ==
    (disk.exists /\ HeaderOnly(disk.content)) =>
        /\ status # "SIGABRT"
        /\ ReadReturned => graphdata.size = 0
        /\ LoopStarted => mesh.cells = <<>>

\* WIDTH - frame_px * 2, as main computes it.
InnerWidth == FSub(ToFloat(WIDTH), FMul(graphdata.frame_px, ToFloat(2)))

XsAscend ==
    /\ \A k \in 1..(Len(mesh.cells) - 1) :
          FLe(mesh.cells[k][1], mesh.cells[k + 1][1])
    /\ mesh.cells # <<>> => mesh.cells[1][1] = graphdata.frame_px

\* C8 as stated: the mesh has exactly size vertices, and for size > 0 and
\* every frame_px with WIDTH > 2 * frame_px the x coordinates do not decrease
\* with the sample index, the first one being frame_px.
C8_MeshX_AnyFrame ==
    /\ LoopStarted => Len(mesh.cells) = graphdata.size
    /\ (graphdata.size > 0 /\ ToFloat(WIDTH) > 2 * graphdata.frame_px) => XsAscend

\* C8 as amended: the same, for every frame_px for which WIDTH - 2 * frame_px
\* as computed in float is positive and finite.
C8_MeshX ==
    /\ LoopStarted => Len(mesh.cells) = graphdata.size
    /\ (graphdata.size > 0 /\ IsFinite(InnerWidth) /\ InnerWidth > 0) => XsAscend

\* A mesh of three vertices with a positive frame and rising x.
C8_Witness ==
    /\ LoopStarted
    /\ graphdata.size >= 3
    /\ graphdata.frame_px > 0
    /\ Len(mesh.cells) = graphdata.size
    /\ mesh.cells[1][1] < mesh.cells[3][1]

\* C9: for a header line of any length both passes take their first line at
\* the first character after the header line's newline.
C9_PassesStartAfterHeader ==
    /\ passStart.count # 0 => passStart.count = DataStart(disk.content)
    /\ passStart.fill # 0 => passStart.fill = DataStart(disk.content)

\* C10: for an openable file without a first token (zero bytes, or a first
\* line of white space only) read_undgraph returns 0, without using the
\* result of a failed line read and without comparing an unwritten tag.
C10_NoTokenFails ==
    (disk.exists /\ TokensOf(HeaderOf(disk.content)) = <<>>
       /\ pc \notin {"main", "fopen", "header"}) =>
        /\ status = "exit1"
        /\ failed = "magic"
        /\ ubRead = {}

=============================================================================
